---- MODULE Spec2Model ----
(***************************************************************************)
(* Spaced-repetition review scheduler of obsidian-learning-extension       *)
(* (src/learning_server.py): schedule_review, get_due_reviews and          *)
(* complete_review over the whole-document store reviews.json.             *)
(*                                                                         *)
(* Numbers.  A timestamp is a count of clock ticks, Day ticks to the day   *)
(* (one tick = 86400 microseconds, so every tick is a whole number of the  *)
(* microseconds datetime keeps).  interval_days is held in the same unit   *)
(* (days * Day).  ease_factor is held in hundredths (2.5 is 250).  With    *)
(* Day = 10^6 the product interval_days * ease_factor is a whole number of *)
(* ticks for up to three successive multiplications, and for every         *)
(* multiplication by 2.5; the repetition bounds below let a chain run no   *)
(* further than that, so timedelta(days=...) rounds nothing away inside    *)
(* the model's bounds.                                                     *)
(***************************************************************************)
EXTENDS Integers, Sequences, FiniteSets, TLC

VARIABLES reviews_file, now, result, saved, tasks, challenges_file,
          progress_file

vars ==
    <<reviews_file, now, result, saved, tasks, challenges_file,
      progress_file>>

\* The two stores the review operations never open.
study == <<challenges_file, progress_file>>

----------------------------------------------------------------------------
(* Units and program constants *)

Day == 1000000

EaseScale == 100

InitialEase == 250

MinEase == 130

DefaultIntervalDays == 1

FirstInterval == 1

SecondInterval == 6

(* Bounds of the model *)

MaxReviews == 2

MaxIds == 2

MaxDays == 1

MaxJitter == 1

MaxReps == 4

MaxRepsShallow == 1

MaxEase == 260

MaxNotes == 1

MaxLog == 2

MaxRepsLong == 8

MaxChallenges == 2

MaxEntries == 2

\* The last day of the calendar, in days after day 0.  datetime ends with
\* the year 9999; the calendar of the model ends early enough for a chain
\* of completions to grow an interval past its end.
MaxDate == 1000

MaxTasks == 2

----------------------------------------------------------------------------
(* Values *)

\* reviews.json before the first save: the file does not exist.
NoFile == [state |-> "missing", reviews |-> <<>>]

\* challenges.json or progress.json before the first save.
NoDocument == [state |-> "missing", data |-> <<>>]

\* A review that has no "last_performance" key yet.
Absent == "absent"

\* An optional argument the caller left out: a sequence of no value.
Omitted == <<>>

\* notes=None
None == "None"

performance_map == [weak |-> 0, moderate |-> 3, strong |-> 4, perfect |-> 5]

Performances == DOMAIN performance_map

ShallowPerformances == {"weak", "strong", "perfect"}

ClockPerformances == {"weak", "strong"}

BadPerformance == "excellent"

IdPool == 1..MaxIds

UnknownId == 0

Topics == {"Docker Basics"}

NotePaths == {"notes/docker.md"}

NoteTexts == {"Good recall"}

\* initial_interval_days as the caller gives it, in ticks: left out, half a
\* day, two days.
IntervalInputs == {Omitted, <<Day \div 2>>, <<2 * Day>>}

NotesInputs == {None, ""} \cup NoteTexts

\* Topics of challenges and progress entries, each with the words it is
\* made of.
TopicWords ==
    [t \in {"Docker Networking", "Python Async"} |->
        IF t = "Docker Networking" THEN {"Docker", "Networking"}
        ELSE {"Python", "Async"}]

StudyTopics == DOMAIN TopicWords

\* area as the caller gives it: left out, or a word.
AreaInputs == {Omitted, <<"Docker">>}

\* duration_minutes
DurationInputs == {30, 45}

\* mastery_rating
RatingInputs == {6, 8}

\* challenge_id as the caller of record_progress gives it.
ChallengeInputs == {Omitted} \cup {<<id>> : id \in IdPool}

\* The first five elements of a list: list[:5].
ListedMost == 5

\* The entries suggest_next_topic looks at: entries[-20:].
RecentMost == 20

\* avg_rating < 7
WeakBelow == 7

Max(a, b) == IF a >= b THEN a ELSE b

----------------------------------------------------------------------------
(* datetime: the clock, timedelta, isoformat and fromisoformat *)

\* One more datetime.now() after a reading of t: the clock has stood still
\* or has moved on by a tick (at most jitter ticks past the whole day).
ClockReads(t, jitter) == {t} \cup (IF t % Day < jitter THEN {t + 1} ELSE {})

\* timedelta(days=d) for d given in ticks.
timedelta(d) == d

\* datetime.isoformat(): the date-and-seconds part, followed by the
\* fractional part only when that part is not zero.
isoformat(t) == IF t % Day = 0 THEN <<t \div Day>> ELSE <<t \div Day, t % Day>>

\* datetime.fromisoformat()
fromisoformat(s) == s[1] * Day + (IF Len(s) > 1 THEN s[2] ELSE 0)

\* datetime + timedelta raises OverflowError ("date value out of range")
\* when the sum lies after datetime.max.
DateOverflow(t, d) == t + timedelta(d) > MaxDate * Day

\* strftime('%Y-%m-%d'): the date alone.
strftime_date(t) == t \div Day

\* (a - b).days of a timedelta: floor of the difference in days.
timedelta_days(a, b) == (a - b) \div Day

\* Python's order on the strings isoformat() produces: position by position,
\* a proper prefix first.
StrLess(s, u) ==
    \/ \E k \in 1..Len(s) :
          /\ k <= Len(u)
          /\ \A j \in 1..(k - 1) : s[j] = u[j]
          /\ s[k] < u[k]
    \/ /\ Len(s) < Len(u)
       /\ \A j \in 1..Len(s) : s[j] = u[j]

----------------------------------------------------------------------------
(* The document store *)

\* reviews.json after write_text was cut short: opened for writing, which
\* empties it, and closed with none or only a part of the JSON text in it.
TornFile == [state |-> "torn", reviews |-> <<>>]

\* load_json_file that gives the default whatever the file holds.
load_json_file_Default(file) == <<>>

\* load_json_file(REVIEWS_FILE, {"reviews": []})["reviews"]: the default
\* when the file does not exist or json.loads fails on its text.
load_json_file(file) ==
    IF file.state \in {"missing", "torn"} THEN <<>> ELSE file.reviews

\* The document save_json_file(REVIEWS_FILE, reviews) leaves on disk.
save_json_file(reviews) == [state |-> "ok", reviews |-> reviews]

\* FindReview with the loop variable taken for the match: when no id
\* matches, the last review of the list is returned.
FindReview_LoopLeak(reviews, review_id) ==
    IF \E i \in 1..Len(reviews) : reviews[i].id = review_id
    THEN CHOOSE i \in 1..Len(reviews) :
            /\ reviews[i].id = review_id
            /\ \A j \in 1..(i - 1) : reviews[j].id # review_id
    ELSE Len(reviews)

\* FindReview without the break: the last review with the id is the match.
FindReview_LastMatch(reviews, review_id) ==
    IF \E i \in 1..Len(reviews) : reviews[i].id = review_id
    THEN CHOOSE i \in 1..Len(reviews) :
            /\ reviews[i].id = review_id
            /\ \A j \in (i + 1)..Len(reviews) : reviews[j].id # review_id
    ELSE 0

\* The first review of the list whose id is review_id, 0 when there is none.
FindReview(reviews, review_id) ==
    IF \E i \in 1..Len(reviews) : reviews[i].id = review_id
    THEN CHOOSE i \in 1..Len(reviews) :
            /\ reviews[i].id = review_id
            /\ \A j \in 1..(i - 1) : reviews[j].id # review_id
    ELSE 0

\* load_json_file(CHALLENGES_FILE, {}), and
\* load_json_file(PROGRESS_FILE, {"entries": []})["entries"].
load_json_data(file) ==
    IF file.state = "missing" THEN <<>> ELSE file.data

\* The document save_json_file leaves in challenges.json or progress.json.
save_json_data(data) == [state |-> "ok", data |-> data]

\* challenge_id in challenges, as a position: the challenges are the values
\* of a dict in the order their keys were first set, 0 when the key is not
\* there.
ChallengeIndex(challenges, challenge_id) ==
    IF \E k \in 1..Len(challenges) : challenges[k].id = challenge_id
    THEN CHOOSE k \in 1..Len(challenges) : challenges[k].id = challenge_id
    ELSE 0

\* challenges[challenge_id] = challenge: a new key goes to the end, a key
\* that is there gets the new value.
PutChallenge(challenges, challenge) ==
    IF ChallengeIndex(challenges, challenge.id) = 0
    THEN Append(challenges, challenge)
    ELSE [challenges EXCEPT ![ChallengeIndex(challenges, challenge.id)] =
            challenge]

----------------------------------------------------------------------------
(* Simplified SM-2 *)

\* EaseDelta with the inner parentheses lost.
EaseDelta_Precedence(quality) == 10 - (5 - quality) * 8 + (5 - quality) * 2

\* 0.1 - (5 - quality) * (0.08 + (5 - quality) * 0.02), in hundredths
EaseDelta(quality) == 10 - (5 - quality) * (8 + (5 - quality) * 2)

\* NewEase without the floor max(1.3, ...).
NewEase_NoFloor(ease_factor, quality) == ease_factor + EaseDelta(quality)

NewEase(ease_factor, quality) == Max(MinEase, ease_factor + EaseDelta(quality))

\* interval_days * ease_factor, in ticks
GrowInterval(interval_days, ease_factor) ==
    (interval_days \div EaseScale) * ease_factor

\* NewInterval giving half a day after a failed recall.
NewInterval_ShortRelearn(review, quality) ==
    IF quality >= 3
    THEN IF review.repetitions = 0 THEN FirstInterval * Day
         ELSE IF review.repetitions = 1 THEN SecondInterval * Day
         ELSE GrowInterval(review.interval_days, review.ease_factor)
    ELSE (FirstInterval * Day) \div 2

\* NewInterval growing the interval the review was scheduled with on the
\* first success.
NewInterval_FromScheduled(review, quality) ==
    IF quality >= 3
    THEN IF review.repetitions = 0 THEN 2 * review.interval_days
         ELSE IF review.repetitions = 1 THEN SecondInterval * Day
         ELSE GrowInterval(review.interval_days, review.ease_factor)
    ELSE FirstInterval * Day

\* NewInterval multiplying by the ease factor already updated for this
\* completion.
NewInterval_UpdatedEase(review, quality) ==
    IF quality >= 3
    THEN IF review.repetitions = 0 THEN FirstInterval * Day
         ELSE IF review.repetitions = 1 THEN SecondInterval * Day
         ELSE GrowInterval(review.interval_days,
                           Max(MinEase, review.ease_factor + EaseDelta(quality)))
    ELSE FirstInterval * Day

\* NewInterval that keeps the interval on a failed recall.
NewInterval_KeepOnWeak(review, quality) ==
    IF quality >= 3
    THEN IF review.repetitions = 0 THEN FirstInterval * Day
         ELSE IF review.repetitions = 1 THEN SecondInterval * Day
         ELSE GrowInterval(review.interval_days, review.ease_factor)
    ELSE review.interval_days

\* NewInterval giving the first interval to the second success as well.
NewInterval_LateBootstrap(review, quality) ==
    IF quality >= 3
    THEN IF review.repetitions <= 1 THEN FirstInterval * Day
         ELSE GrowInterval(review.interval_days, review.ease_factor)
    ELSE FirstInterval * Day

NewInterval(review, quality) ==
    IF quality >= 3
    THEN IF review.repetitions = 0 THEN FirstInterval * Day
         ELSE IF review.repetitions = 1 THEN SecondInterval * Day
         ELSE GrowInterval(review.interval_days, review.ease_factor)
    ELSE FirstInterval * Day

\* NewRepetitions that keeps the count on a quality below 3.
NewRepetitions_NoReset(review, quality) ==
    IF quality >= 3 THEN review.repetitions + 1 ELSE review.repetitions

NewRepetitions(review, quality) ==
    IF quality >= 3 THEN review.repetitions + 1 ELSE 0

NewEaseFactor(review, quality) ==
    IF quality >= 3 THEN NewEase(review.ease_factor, quality)
    ELSE review.ease_factor

----------------------------------------------------------------------------
(* Tool calls in flight: the handlers that have loaded the document and     *)
(* not yet saved it, each with the document it holds in memory.             *)

TaskIds == 1..MaxTasks

NoCall ==
    [op |-> "none", topic |-> "", review_id |-> 0, performance |-> "none"]

\* A handler that is not between its load and its save; reply is the
\* answer of its last call.
IdleTask(reply) ==
    [pc |-> "idle", call |-> NoCall, reviews |-> <<>>, reply |-> reply]

----------------------------------------------------------------------------
Init ==
    /\ reviews_file = NoFile
    /\ now = 0
    /\ result = [kind |-> "none"]
    /\ saved = FALSE
    /\ tasks = [t \in TaskIds |-> IdleTask([kind |-> "none"])]
    /\ challenges_file = NoDocument
    /\ progress_file = NoDocument

\* Time passes between two tool calls.
Tick ==
    /\ now \div Day < MaxDays
    /\ now' = now + Day
    /\ UNCHANGED <<reviews_file, result, saved, tasks, study>>

\* NewReview with next_review always one day ahead.
NewReview_Fixed(review_id, topic, note_path, initial_interval_days, t1, t2) ==
    [id |-> review_id,
     topic |-> topic,
     note_path |-> note_path,
     created_at |-> isoformat(t2),
     next_review |-> isoformat(t1 + timedelta(DefaultIntervalDays * Day)),
     interval_days |-> initial_interval_days,
     repetitions |-> 0,
     ease_factor |-> InitialEase,
     last_performance |-> Absent,
     review_notes |-> <<>>]

\* The review dictionary schedule_review builds: t1 is the clock reading
\* next_review is computed from, t2 the later reading kept as created_at.
NewReview(review_id, topic, note_path, initial_interval_days, t1, t2) ==
    [id |-> review_id,
     topic |-> topic,
     note_path |-> note_path,
     created_at |-> isoformat(t2),
     next_review |-> isoformat(t1 + timedelta(initial_interval_days)),
     interval_days |-> initial_interval_days,
     repetitions |-> 0,
     ease_factor |-> InitialEase,
     last_performance |-> Absent,
     review_notes |-> <<>>]

\* arguments.get("initial_interval_days", 1)
InitialIntervalDays(arg) ==
    IF arg = Omitted THEN DefaultIntervalDays * Day ELSE arg[1]

\* One call schedule_review(topic, note_path, initial_interval_days) in
\* which uuid4 yields review_id.
ScheduleCall(topic, note_path, arg, review_id, maxReviews, jitter) ==
    \E t2 \in ClockReads(now, jitter) :
        LET reviews == load_json_file(reviews_file)
            initial_interval_days == InitialIntervalDays(arg)
            review == NewReview(review_id, topic, note_path,
                                initial_interval_days, now, t2)
        IN  /\ Len(reviews) < maxReviews
            /\ reviews_file' = save_json_file(Append(reviews, review))
            /\ saved' = TRUE
            /\ now' = t2
            /\ UNCHANGED <<tasks, study>>
            /\ result' = [kind |-> "scheduled", topic |-> topic,
                          date |-> strftime_date(
                                    now + timedelta(initial_interval_days))]

ScheduleReview(maxReviews, jitter) ==
    \E topic \in Topics, note_path \in NotePaths, arg \in IntervalInputs,
       review_id \in IdPool :
        ScheduleCall(topic, note_path, arg, review_id, maxReviews, jitter)

\* One line group of the due listing.
DueEntry(r, at) ==
    [topic |-> r.topic,
     overdue_text |-> IF timedelta_days(at, fromisoformat(r.next_review)) > 0
                      THEN <<timedelta_days(at, fromisoformat(r.next_review)),
                             "days overdue">>
                      ELSE <<"due today">>,
     id |-> r.id,
     note_path |-> r.note_path,
     repetitions |-> r.repetitions]

\* DueReviews with a strict comparison.
DueReviews_Strict(reviews, at) ==
    SelectSeq(reviews, LAMBDA r : fromisoformat(r.next_review) < at)

\* [r for r in reviews if datetime.fromisoformat(r["next_review"]) <= now]
DueReviews(reviews, at) ==
    SelectSeq(reviews, LAMBDA r : fromisoformat(r.next_review) <= at)

\* InsertByNextReview that keeps the order of the store.
InsertByNextReview_StoreOrder(sorted, r) == Append(sorted, r)

\* Insertion of r into a list sorted by "next_review", behind every element
\* whose key is not greater (sorted() is stable).
InsertByNextReview(sorted, r) ==
    LET k == Cardinality({j \in 1..Len(sorted) :
                            ~StrLess(r.next_review, sorted[j].next_review)})
    IN  SubSeq(sorted, 1, k) \o <<r>> \o SubSeq(sorted, k + 1, Len(sorted))

RECURSIVE SortByNextReview(_)
\* sorted(due, key=lambda x: x["next_review"])
SortByNextReview(due) ==
    IF Len(due) = 0 THEN <<>>
    ELSE InsertByNextReview(SortByNextReview(SubSeq(due, 1, Len(due) - 1)),
                            due[Len(due)])

\* GetDueReviews that writes back the document it loaded.
GetDueReviews_WritesBack ==
    LET reviews == load_json_file(reviews_file)
        due == DueReviews(reviews, now)
        listed == SortByNextReview(due)
    IN  /\ result' = IF Len(due) = 0
                      THEN [kind |-> "no_reviews_due"]
                      ELSE [kind |-> "due", count |-> Len(due),
                            entries |-> [k \in 1..Len(listed) |->
                                            DueEntry(listed[k], now)]]
        /\ saved' = TRUE
        /\ reviews_file' = save_json_file(reviews)
        /\ UNCHANGED <<now, tasks, study>>

\* get_due_reviews()
GetDueReviews ==
    LET reviews == load_json_file(reviews_file)
        due == DueReviews(reviews, now)
        listed == SortByNextReview(due)
    IN  /\ result' = IF Len(due) = 0
                      THEN [kind |-> "no_reviews_due"]
                      ELSE [kind |-> "due", count |-> Len(due),
                            entries |-> [k \in 1..Len(listed) |->
                                            DueEntry(listed[k], now)]]
        /\ saved' = FALSE
        /\ UNCHANGED <<reviews_file, now, tasks, study>>

\* CompletedReview that puts the new log entry in front of the log.
CompletedReview_NewestFirst(review, performance, notes, t1, t2) ==
    LET quality == performance_map[performance]
        interval == NewInterval(review, quality)
    IN  [review EXCEPT
            !.repetitions = NewRepetitions(review, quality),
            !.ease_factor = NewEaseFactor(review, quality),
            !.interval_days = interval,
            !.next_review = isoformat(t1 + timedelta(interval)),
            !.last_performance = performance,
            !.review_notes =
                IF notes \notin {None, ""}
                THEN <<[timestamp |-> isoformat(t2),
                        performance |-> performance,
                        notes |-> notes]>> \o @
                ELSE @]

\* CompletedReview with next_review computed from the interval the review
\* had before this completion.
CompletedReview_OldInterval(review, performance, notes, t1, t2) ==
    LET quality == performance_map[performance]
        interval == NewInterval(review, quality)
    IN  [review EXCEPT
            !.repetitions = NewRepetitions(review, quality),
            !.ease_factor = NewEaseFactor(review, quality),
            !.interval_days = interval,
            !.next_review = isoformat(t1 + timedelta(review.interval_days)),
            !.last_performance = performance,
            !.review_notes =
                IF notes \notin {None, ""}
                THEN Append(@, [timestamp |-> isoformat(t2),
                                performance |-> performance,
                                notes |-> notes])
                ELSE @]

\* CompletedReview that logs every completion, with or without notes.
CompletedReview_LogsAlways(review, performance, notes, t1, t2) ==
    LET quality == performance_map[performance]
        interval == NewInterval(review, quality)
    IN  [review EXCEPT
            !.repetitions = NewRepetitions(review, quality),
            !.ease_factor = NewEaseFactor(review, quality),
            !.interval_days = interval,
            !.next_review = isoformat(t1 + timedelta(interval)),
            !.last_performance = performance,
            !.review_notes = Append(@, [timestamp |-> isoformat(t2),
                                        performance |-> performance,
                                        notes |-> notes])]

\* The review as complete_review leaves it.
CompletedReview(review, performance, notes, t1, t2) ==
    LET quality == performance_map[performance]
        interval == NewInterval(review, quality)
    IN  [review EXCEPT
            !.repetitions = NewRepetitions(review, quality),
            !.ease_factor = NewEaseFactor(review, quality),
            !.interval_days = interval,
            !.next_review = isoformat(t1 + timedelta(interval)),
            !.last_performance = performance,
            !.review_notes =
                IF notes \notin {None, ""}
                THEN Append(@, [timestamp |-> isoformat(t2),
                                performance |-> performance,
                                notes |-> notes])
                ELSE @]

\* CompleteCall that records the performance and saves before it looks the
\* performance up in performance_map.
CompleteCall_SaveOnError(review_id, performance, notes, maxReps, maxNotes, jitter) ==
    LET reviews == load_json_file(reviews_file)
        i == FindReview(reviews, review_id)
    IN  IF i = 0
        THEN /\ result' = [kind |-> "not_found", review_id |-> review_id]
             /\ saved' = FALSE
             /\ UNCHANGED <<reviews_file, now, tasks, study>>
        ELSE IF performance \notin DOMAIN performance_map
        THEN /\ result' = [kind |-> "error", key |-> performance]
             /\ saved' = TRUE
             /\ reviews_file' = save_json_file(
                    [reviews EXCEPT ![i].last_performance = performance])
             /\ UNCHANGED <<now, tasks, study>>
        ELSE \E t2 \in (IF notes \notin {None, ""}
                         THEN ClockReads(now, jitter) ELSE {now}) :
             \E t3 \in ClockReads(t2, jitter) :
                LET review == CompletedReview(reviews[i], performance,
                                              notes, now, t2)
                IN  /\ review.repetitions <= maxReps
                    /\ review.ease_factor <= MaxEase
                    /\ Len(review.review_notes) <= maxNotes
                    /\ reviews_file' = save_json_file(
                                        [reviews EXCEPT ![i] = review])
                    /\ saved' = TRUE
                    /\ now' = t3
                    /\ UNCHANGED <<tasks, study>>
                    /\ result' =
                          [kind |-> "completed",
                           next_date |-> strftime_date(
                                t3 + timedelta(review.interval_days)),
                           interval |-> review.interval_days]

\* One call complete_review(review_id, performance, notes).  The sum at
\* line 691 is taken before the save, the one at line 705 after it.
CompleteCall(review_id, performance, notes, maxReps, maxNotes, jitter) ==
    LET reviews == load_json_file(reviews_file)
        i == FindReview(reviews, review_id)
    IN  IF i = 0
        THEN /\ result' = [kind |-> "not_found", review_id |-> review_id]
             /\ saved' = FALSE
             /\ UNCHANGED <<reviews_file, now, tasks, study>>
        ELSE IF performance \notin DOMAIN performance_map
        THEN /\ result' = [kind |-> "error", key |-> performance]
             /\ saved' = FALSE
             /\ UNCHANGED <<reviews_file, now, tasks, study>>
        ELSE \E t2 \in (IF notes \notin {None, ""}
                         THEN ClockReads(now, jitter) ELSE {now}) :
             \E t3 \in ClockReads(t2, jitter) :
                LET review == CompletedReview(reviews[i], performance,
                                              notes, now, t2)
                IN  /\ review.repetitions <= maxReps
                    /\ review.ease_factor <= MaxEase
                    /\ Len(review.review_notes) <= maxNotes
                    /\ UNCHANGED <<tasks, study>>
                    /\ IF DateOverflow(now, review.interval_days)
                       THEN /\ result' = [kind |-> "error",
                                          key |-> "date value out of range"]
                            /\ saved' = FALSE
                            /\ UNCHANGED <<reviews_file, now>>
                       ELSE /\ reviews_file' = save_json_file(
                                        [reviews EXCEPT ![i] = review])
                            /\ saved' = TRUE
                            /\ now' = t3
                            /\ result' =
                                 IF DateOverflow(t3, review.interval_days)
                                 THEN [kind |-> "error",
                                       key |-> "date value out of range"]
                                 ELSE [kind |-> "completed",
                                       next_date |-> strftime_date(
                                         t3 + timedelta(review.interval_days)),
                                       interval |-> review.interval_days]

CompleteReview(performances, notesInputs, maxReps, maxNotes, jitter) ==
    \E review_id \in IdPool \cup {UnknownId},
       performance \in performances \cup {BadPerformance},
       notes \in notesInputs :
        CompleteCall(review_id, performance, notes, maxReps, maxNotes,
                     jitter)

\* The challenge create_challenge builds; the description text is left out.
NewChallenge(challenge_id, topic, t) ==
    [id |-> challenge_id,
     topic |-> topic,
     difficulty |-> "beginner",
     type |-> "knowledge",
     status |-> "pending",
     created_at |-> isoformat(t),
     updated_at |-> isoformat(t),
     time_spent_minutes |-> 0,
     notes |-> <<>>]

\* One call create_challenge(topic, "beginner", "knowledge"); challenge_id
\* is what uuid4().hex[:8] gave.
CreateChallengeCall(topic, challenge_id) ==
    LET challenges == load_json_data(challenges_file)
        stored == PutChallenge(challenges,
                               NewChallenge(challenge_id, topic, now))
    IN  /\ Len(stored) <= MaxChallenges
        /\ challenges_file' = save_json_data(stored)
        /\ saved' = TRUE
        /\ result' = [kind |-> "challenge_created", id |-> challenge_id,
                      topic |-> topic]
        /\ UNCHANGED <<reviews_file, now, tasks, progress_file>>

CreateChallenge(topics) ==
    \E topic \in topics, challenge_id \in IdPool :
        CreateChallengeCall(topic, challenge_id)

\* challenges[challenge_id]["time_spent_minutes"] += duration_minutes
AddTimeSpent(challenges, k, duration_minutes) ==
    [challenges EXCEPT ![k].time_spent_minutes = @ + duration_minutes]

\* One call record_progress(topic, "Tutorial", duration_minutes,
\* mastery_rating, challenge_id); entry_id is what uuid4().hex[:8] gave.
RecordProgressCall(topic, duration_minutes, mastery_rating, arg, entry_id) ==
    LET entries == load_json_data(progress_file)
        entry == [id |-> entry_id,
                  topic |-> topic,
                  activity |-> "Tutorial",
                  duration_minutes |-> duration_minutes,
                  mastery_rating |-> mastery_rating,
                  challenge_id |-> arg,
                  notes |-> None,
                  timestamp |-> isoformat(now)]
        challenges == load_json_data(challenges_file)
        k == IF arg = Omitted THEN 0
             ELSE ChallengeIndex(challenges, arg[1])
    IN  /\ Len(entries) < MaxEntries
        /\ progress_file' = save_json_data(Append(entries, entry))
        /\ IF k # 0
           THEN challenges_file' =
                    save_json_data(AddTimeSpent(challenges, k,
                                                duration_minutes))
           ELSE UNCHANGED challenges_file
        /\ saved' = TRUE
        /\ result' = [kind |-> "progress_recorded", topic |-> topic,
                      duration |-> duration_minutes,
                      rating |-> mastery_rating,
                      linked |-> arg]
        /\ UNCHANGED <<reviews_file, now, tasks>>

RecordProgress(topics, durations, ratings, challengeInputs) ==
    \E topic \in topics, duration_minutes \in durations,
       mastery_rating \in ratings, arg \in challengeInputs :
        \E entry_id \in IdPool :
            RecordProgressCall(topic, duration_minutes, mastery_rating, arg,
                               entry_id)

\* list[-n:]
LastOf(list, n) == SubSeq(list, Max(1, Len(list) - n + 1), Len(list))

\* list[:n]
FirstOf(list, n) == SubSeq(list, 1, IF Len(list) < n THEN Len(list) ELSE n)

RECURSIVE SumRatings(_)
\* sum(ratings)
SumRatings(entries) ==
    IF Len(entries) = 0 THEN 0
    ELSE entries[1].mastery_rating + SumRatings(Tail(entries))

\* recent_topics.items(): the topics of the entries in the order of their
\* first entry, each with the sum and the number of its ratings.
RecentTopics(entries) ==
    LET firsts == {k \in 1..Len(entries) :
                     \A j \in 1..(k - 1) :
                        entries[j].topic # entries[k].topic}
        nth(n) == CHOOSE k \in firsts :
                     Cardinality({j \in firsts : j < k}) = n - 1
        of(topic) == SelectSeq(entries, LAMBDA e : e.topic = topic)
    IN  [n \in 1..Cardinality(firsts) |->
            [topic |-> entries[nth(n)].topic,
             sum |-> SumRatings(of(entries[nth(n)].topic)),
             count |-> Len(of(entries[nth(n)].topic))]]

\* The topics whose average rating is below 7.
WeakTopics(entries) ==
    SelectSeq(RecentTopics(entries),
              LAMBDA w : w.sum < WeakBelow * w.count)

\* Insertion of w into a list sorted by average rating, behind every
\* element whose average is not greater (sorted() is stable).
InsertByRating(sorted, w) ==
    LET k == Cardinality({j \in 1..Len(sorted) :
                            ~(w.sum * sorted[j].count
                                < sorted[j].sum * w.count)})
    IN  SubSeq(sorted, 1, k) \o <<w>> \o SubSeq(sorted, k + 1, Len(sorted))

RECURSIVE SortByRating(_)
\* sorted(weak_topics, key=lambda x: x[1])
SortByRating(weak) ==
    IF Len(weak) = 0 THEN <<>>
    ELSE InsertByRating(SortByRating(SubSeq(weak, 1, Len(weak) - 1)),
                        weak[Len(weak)])

\* f"{rating:.1f}": the average in tenths, rounded to the nearest tenth
\* (an average of fewer than four whole ratings is never halfway).
FormatTenths(sum, count) == ((sum * 100) \div count + 5) \div 10

\* [c for c in challenges.values() if c["status"] == "pending"]
PendingChallenges(challenges) ==
    SelectSeq(challenges, LAMBDA c : c.status = "pending")

\* One call suggest_next_topic(area).
SuggestNextTopicCall(area) ==
    LET entries == load_json_data(progress_file)
        challenges == load_json_data(challenges_file)
        weak == FirstOf(SortByRating(WeakTopics(LastOf(entries, RecentMost))),
                        ListedMost)
        pending == PendingChallenges(challenges)
        listed == FirstOf(pending, ListedMost)
    IN  /\ result' =
              [kind |-> "suggestions",
               weak_topics |-> [k \in 1..Len(weak) |->
                                  [topic |-> weak[k].topic,
                                   rating |-> FormatTenths(weak[k].sum,
                                                           weak[k].count)]],
               pending_count |-> Len(pending),
               pending |-> [k \in 1..Len(listed) |->
                              [topic |-> listed[k].topic,
                               difficulty |-> listed[k].difficulty,
                               type |-> listed[k].type]]]
        /\ saved' = FALSE
        /\ UNCHANGED <<reviews_file, now, tasks, study>>

SuggestNextTopic(areas) == \E area \in areas : SuggestNextTopicCall(area)

\* Topics a caller may pass: any string, the empty one included.
WideTopics == Topics \cup {""}

\* initial_interval_days a caller may pass: any number, zero and negative
\* ones included.
WideIntervalInputs == IntervalInputs \cup {<<0>>, <<0 - Day>>}

\* schedule_review with any argument values the dispatcher passes on.
ScheduleAnyInput(maxReviews) ==
    \E topic \in WideTopics, note_path \in NotePaths,
       arg \in WideIntervalInputs, review_id \in IdPool :
        ScheduleCall(topic, note_path, arg, review_id, maxReviews, 0)

\* The arguments call_tool reads with arguments[...] for each scheduler tool.
RequiredArguments ==
    [schedule_review |-> {"topic", "note_path"},
     get_due_reviews |-> {},
     complete_review |-> {"review_id", "performance"}]

\* call_tool(name, arguments) with a required argument missing: the
\* KeyError is caught and answered before the tool is entered.
CallToolMissing(name, key) ==
    /\ key \in RequiredArguments[name]
    /\ result' = [kind |-> "error", key |-> key]
    /\ saved' = FALSE
    /\ UNCHANGED <<reviews_file, now, tasks, study>>

CallToolMissingArgument ==
    \E name \in DOMAIN RequiredArguments :
        \E key \in RequiredArguments[name] : CallToolMissing(name, key)

\* The calls followed step by step: schedule_review of one of these topics
\* with the default interval, complete_review with one of these
\* performances and without notes.
TaskCalls(topics, performances) ==
    {[op |-> "schedule_review", topic |-> topic, review_id |-> 0,
      performance |-> "none"] : topic \in topics}
    \cup {[op |-> "complete_review", topic |-> "", review_id |-> id,
           performance |-> p] : id \in IdPool, p \in performances}

\* Runnable for tool bodies that give up control between load and save.
Runnable_AwaitInside(t, sameLoop) == TRUE

\* Whether handler t may take a step.  Handlers of one server process are
\* coroutines of one event loop, which changes coroutine only at an await;
\* the tool bodies contain none, so while a handler is between its load and
\* its save no other handler of the process runs.  Handlers of different
\* processes run independently.
Runnable(t, sameLoop) ==
    sameLoop => \A u \in TaskIds \ {t} : tasks[u].pc = "idle"

\* TaskDocument that reads the file again when the handler saves.
TaskDocument_Reload(t) == load_json_file(reviews_file)

\* The document handler t mutates and saves: the local variable reviews it
\* loaded.
TaskDocument(t) == tasks[t].reviews

\* Handler t is entered with this call and loads the document.
TaskLoad(t, call, sameLoop) ==
    LET reviews == load_json_file(reviews_file)
        i == FindReview(reviews, call.review_id)
    IN  /\ tasks[t].pc = "idle"
        /\ Runnable(t, sameLoop)
        /\ call.op = "schedule_review" => Len(reviews) < MaxReviews
        /\ (call.op = "complete_review" /\ i # 0)
             => LET review == CompletedReview(reviews[i], call.performance,
                                              None, now, now)
                IN  /\ review.repetitions <= MaxRepsShallow
                    /\ review.ease_factor <= MaxEase
        /\ tasks' = [tasks EXCEPT ![t] =
                        [pc |-> "loaded", call |-> call, reviews |-> reviews,
                         reply |-> @.reply]]
        /\ UNCHANGED <<reviews_file, now, result, saved, study>>

\* Handler t runs from after its load to its return: it changes its
\* document, saves it and answers.
TaskFinish(t, sameLoop) ==
    LET reviews == TaskDocument(t)
        call == tasks[t].call
        i == FindReview(reviews, call.review_id)
    IN  /\ tasks[t].pc = "loaded"
        /\ Runnable(t, sameLoop)
        /\ UNCHANGED <<now, study>>
        /\ IF call.op = "schedule_review"
           THEN \E review_id \in IdPool, note_path \in NotePaths :
                    /\ reviews_file' = save_json_file(Append(reviews,
                            NewReview(review_id, call.topic, note_path,
                                      DefaultIntervalDays * Day, now, now)))
                    /\ saved' = TRUE
                    /\ result' = [kind |-> "scheduled",
                                  topic |-> call.topic,
                                  date |-> strftime_date(now + timedelta(
                                            DefaultIntervalDays * Day))]
           ELSE IF i = 0
           THEN /\ result' = [kind |-> "not_found",
                              review_id |-> call.review_id]
                /\ saved' = FALSE
                /\ UNCHANGED reviews_file
           ELSE LET review == CompletedReview(reviews[i], call.performance,
                                              None, now, now)
                IN  /\ reviews_file' = save_json_file(
                                        [reviews EXCEPT ![i] = review])
                    /\ saved' = TRUE
                    /\ result' =
                          [kind |-> "completed",
                           next_date |-> strftime_date(
                                now + timedelta(review.interval_days)),
                           interval |-> review.interval_days]
        /\ tasks' = [tasks EXCEPT ![t] = IdleTask(result')]

\* Two reviews, short chains of completions, a clock that stands still
\* while a call is handled.
Next ==
    \/ ScheduleReview(MaxReviews, 0)
    \/ GetDueReviews
    \/ CompleteReview(ShallowPerformances, {None, ""}, MaxRepsShallow,
                      MaxNotes, 0)
    \/ Tick

Spec == Init /\ [][Next]_vars

\* One review followed through long chains of completions of every tier.
NextChain ==
    \/ ScheduleReview(1, 0)
    \/ GetDueReviews
    \/ CompleteReview(Performances, {None}, MaxReps, MaxNotes, 0)
    \/ Tick

SpecChain == Init /\ [][NextChain]_vars

\* The clock may move on between two readings inside one call, and
\* completions carry notes; all calls fall within the same day.
NextClock ==
    \/ ScheduleReview(MaxReviews, MaxJitter)
    \/ GetDueReviews
    \/ CompleteReview(ClockPerformances, NotesInputs, MaxRepsShallow,
                      MaxNotes, MaxJitter)

SpecClock == Init /\ [][NextClock]_vars

\* The process is killed while it handles a schedule_review call: before
\* save_json_file is reached, or inside write_text after the file was opened
\* for writing and before the whole text was written.
Crash(point) ==
    /\ reviews_file' = IF point = "in_write_text" THEN TornFile
                       ELSE reviews_file
    /\ saved' = (point = "in_write_text")
    /\ result' = [kind |-> "crashed"]
    /\ UNCHANGED <<now, tasks, study>>

CrashInCall == \E point \in {"before_save", "in_write_text"} : Crash(point)

\* Calls of one process that may be killed at any point.
NextCrash ==
    \/ ScheduleReview(MaxReviews, 0)
    \/ GetDueReviews
    \/ CompleteReview(ShallowPerformances, {None, ""}, MaxRepsShallow,
                      MaxNotes, 0)
    \/ CrashInCall

SpecCrash == Init /\ [][NextCrash]_vars

\* One review, and callers that pass any argument values or leave
\* required ones out.
NextInputs ==
    \/ ScheduleAnyInput(1)
    \/ GetDueReviews
    \/ CompleteReview(ShallowPerformances, {None, ""}, MaxRepsShallow,
                      MaxNotes, 0)
    \/ CallToolMissingArgument
    \/ Tick

SpecInputs == Init /\ [][NextInputs]_vars

\* Tool calls handled by one server process, load and save as separate
\* steps.
NextLoop ==
    \/ \E t \in TaskIds, call \in TaskCalls(Topics, ClockPerformances) :
          TaskLoad(t, call, TRUE)
    \/ \E t \in TaskIds : TaskFinish(t, TRUE)

SpecLoop == Init /\ [][NextLoop]_vars

\* Tool calls handled by server processes that share the data directory.
NextProcs ==
    \/ \E t \in TaskIds, call \in TaskCalls(Topics, {"strong"}) :
          TaskLoad(t, call, FALSE)
    \/ \E t \in TaskIds : TaskFinish(t, FALSE)

SpecProcs == Init /\ [][NextProcs]_vars

\* One review completed with notes again and again, so that its log grows
\* past one entry.
NextLog ==
    \/ ScheduleReview(1, 0)
    \/ GetDueReviews
    \/ CompleteReview(ClockPerformances, NotesInputs, MaxRepsShallow, MaxLog,
                      MaxJitter)
    \/ Tick

SpecLog == Init /\ [][NextLog]_vars

\* One review followed through a chain of successes long enough for its
\* interval to pass the end of the calendar.
NextLong ==
    \/ ScheduleReview(1, 0)
    \/ GetDueReviews
    \/ CompleteReview(ClockPerformances, {None}, MaxRepsLong, MaxNotes, 0)
    \/ Tick

SpecLong == Init /\ [][NextLong]_vars

\* Challenges and progress entries, with time spent recorded on
\* challenges.
NextProgress ==
    \/ CreateChallenge({"Docker Networking"})
    \/ RecordProgress({"Docker Networking"}, DurationInputs, {6},
                      ChallengeInputs)

SpecProgress == Init /\ [][NextProgress]_vars

\* A review and its due listing beside stored challenges and progress
\* entries.
NextStores ==
    \/ CreateChallenge({"Docker Networking"})
    \/ RecordProgress({"Docker Networking"}, {30}, {6}, {Omitted})
    \/ ScheduleReview(1, 0)
    \/ GetDueReviews
    \/ Tick

SpecStores == Init /\ [][NextStores]_vars

\* Challenges and progress entries of two areas, and the suggestions drawn
\* from them.
NextStudy ==
    \/ CreateChallenge(StudyTopics)
    \/ RecordProgress(StudyTopics, {30}, RatingInputs, {Omitted})
    \/ SuggestNextTopic(AreaInputs)

SpecStudy == Init /\ [][NextStudy]_vars

----------------------------------------------------------------------------
(* Properties *)

\* The persisted reviews, in store order.
Reviews == load_json_file(reviews_file)

\* A step that is one call of complete_review with these arguments, under
\* the widest bounds any of the specifications uses.
AnyComplete(review_id, performance, notes) ==
    CompleteCall(review_id, performance, notes, Max(MaxReps, MaxRepsLong),
                 Max(MaxNotes, MaxLog), MaxJitter)

\* A step that is one call of schedule_review with these arguments.
AnySchedule(topic, note_path, arg, review_id) ==
    ScheduleCall(topic, note_path, arg, review_id, MaxReviews, MaxJitter)

\* The position of the first persisted review whose id is review_id is i.
FirstWithId(i, review_id) ==
    /\ i \in 1..Len(Reviews)
    /\ Reviews[i].id = review_id
    /\ \A j \in 1..(i - 1) : Reviews[j].id # review_id

\* A step that completes the review at position i with this performance,
\* one of the four tiers.
Completes(i, performance) ==
    /\ result'.kind = "completed"
    /\ Reviews'[i].last_performance = performance
    /\ FirstWithId(i, Reviews[i].id)
    /\ \E notes \in NotesInputs :
          AnyComplete(Reviews[i].id, performance, notes)

FreshlyScheduled(r) ==
    /\ r.repetitions = 0
    /\ r.ease_factor = 250
    /\ r.last_performance = Absent

\* C1 as stated: one "strong" completion of a freshly scheduled review
\* (repetitions 0, ease_factor 2.5) leaves repetitions = 1, interval_days = 1
\* and an ease_factor strictly greater than 2.5.
C1_AsStated ==
    [][\A i \in 1..Len(Reviews) :
          (Completes(i, "strong") /\ FreshlyScheduled(Reviews[i]))
          => /\ Reviews'[i].repetitions = 1
             /\ Reviews'[i].interval_days = 1 * Day
             /\ Reviews'[i].ease_factor > 250]_vars

\* C1 amended: one "strong" completion of a freshly scheduled review leaves
\* repetitions = 1, interval_days = 1 and the ease_factor at 2.5: the update
\* term of quality 4 is zero.
C1_StrongFromFresh ==
    [][\A i \in 1..Len(Reviews) :
          (Completes(i, "strong") /\ FreshlyScheduled(Reviews[i]))
          => /\ Reviews'[i].repetitions = 1
             /\ Reviews'[i].interval_days = 1 * Day
             /\ Reviews'[i].ease_factor = 250]_vars

\* A review completed once, with "strong", at the time it was scheduled.
C1_Witness ==
    /\ result.kind = "completed"
    /\ \E i \in 1..Len(Reviews) :
          /\ Reviews[i].last_performance = "strong"
          /\ Reviews[i].repetitions = 1
          /\ Reviews[i].interval_days = 1 * Day
          /\ Reviews[i].ease_factor = 250
          /\ fromisoformat(Reviews[i].next_review)
                = fromisoformat(Reviews[i].created_at) + 1 * Day

\* C2: in every reachable state every persisted review has
\* ease_factor >= 1.3.
C2_EaseFloor ==
    \A i \in 1..Len(Reviews) : Reviews[i].ease_factor >= 130

\* A "moderate" completion has brought a review down to the floor.
C2_Witness ==
    \E i \in 1..Len(Reviews) :
        /\ Reviews[i].ease_factor = 130
        /\ Reviews[i].last_performance = "moderate"

Successful == {"moderate", "strong", "perfect"}

\* C3: a successful completion sets interval_days to 1 when the prior
\* repetitions is 0, to 6 when it is 1, and otherwise to the prior
\* interval_days times the prior ease_factor; the third success in a row
\* (prior repetitions 2) ends with repetitions = 3 and interval_days = 6
\* times the ease_factor held just before it.
C3_IntervalRule ==
    [][\A i \in 1..Len(Reviews) : \A p \in Successful :
          Completes(i, p)
          => LET old == Reviews[i]
                 new == Reviews'[i]
             IN  /\ old.repetitions = 0 => new.interval_days = 1 * Day
                 /\ old.repetitions = 1 => new.interval_days = 6 * Day
                 /\ old.repetitions >= 2
                      => /\ old.interval_days % 100 = 0
                         /\ new.interval_days
                              = (old.interval_days \div 100) * old.ease_factor
                 /\ old.repetitions = 2
                      => /\ new.repetitions = 3
                         /\ new.interval_days
                              = 6 * (Day \div 100) * old.ease_factor]_vars

\* Three successes in a row, the third one "perfect" on an ease_factor of
\* 2.36: the interval is 6 * 2.36 = 14.16 days, not 6 times the new 2.46.
C3_Witness ==
    \E i \in 1..Len(Reviews) :
        /\ Reviews[i].repetitions = 3
        /\ Reviews[i].last_performance = "perfect"
        /\ Reviews[i].ease_factor = 246
        /\ Reviews[i].interval_days = 14160000

\* C4: a successful completion of quality q moves the ease_factor by +0.10
\* (perfect), 0.00 (strong) or -0.14 (moderate), not below 1.3; a "weak"
\* completion leaves it unchanged.
C4_EaseUpdate ==
    [][\A i \in 1..Len(Reviews) : \A p \in Performances :
          Completes(i, p)
          => LET old == Reviews[i].ease_factor
                 new == Reviews'[i].ease_factor
                 step == [perfect |-> 10, strong |-> 0, moderate |-> -14]
             IN  IF p = "weak" THEN new = old
                 ELSE IF old + step[p] < 130 THEN new = 130
                 ELSE new = old + step[p]]_vars

\* Ease factors that only a mix of "perfect" and "moderate" produces, and a
\* "weak" completion that kept one of them.
C4_Witness ==
    \E i \in 1..Len(Reviews) :
        /\ Reviews[i].ease_factor = 232
        /\ Reviews[i].last_performance = "weak"

\* C5: a "weak" completion of any existing review leaves repetitions = 0
\* and interval_days = 1.
C5_WeakResets ==
    [][\A i \in 1..Len(Reviews) :
          Completes(i, "weak")
          => /\ Reviews'[i].repetitions = 0
             /\ Reviews'[i].interval_days = 1 * Day]_vars

\* A "weak" completion that followed a chain of successes: the stored
\* next_review is one day after a completion and the ease_factor has moved.
C5_Witness ==
    /\ result.kind = "completed"
    /\ result.interval = 1 * Day
    /\ \E i \in 1..Len(Reviews) :
          /\ Reviews[i].last_performance = "weak"
          /\ Reviews[i].repetitions = 0
          /\ Reviews[i].ease_factor = 208

\* C6: when a "strong" completion follows a "strong" completion of the same
\* review, interval_days after the second is strictly greater than
\* interval_days after the first.
C6_StrongThenStrong ==
    [][\A i \in 1..Len(Reviews) :
          (Completes(i, "strong") /\ Reviews[i].last_performance = "strong")
          => Reviews'[i].interval_days > Reviews[i].interval_days]_vars

\* Two "strong" completions in a row at the end of a chain of four
\* successes.
C6_Witness ==
    \E i \in 1..Len(Reviews) :
        /\ Reviews[i].last_performance = "strong"
        /\ Reviews[i].repetitions = 4
        /\ Reviews[i].interval_days > 6 * Day
        /\ result.kind = "completed"

\* C7: complete_review with an id no persisted review has returns the
\* not-found answer, and the store is as before: the document is unchanged
\* and nothing is written.
C7_UnknownId ==
    [][\A review_id \in IdPool \cup {UnknownId},
         performance \in Performances \cup {BadPerformance},
         notes \in NotesInputs :
          (/\ \A j \in 1..Len(Reviews) : Reviews[j].id # review_id
           /\ AnyComplete(review_id, performance, notes))
          => /\ result'.kind = "not_found"
             /\ result'.review_id = review_id
             /\ reviews_file' = reviews_file
             /\ saved' = FALSE]_vars

\* The not-found answer over a store that holds a review.
C7_Witness ==
    /\ result.kind = "not_found"
    /\ Len(Reviews) > 0
    /\ \A j \in 1..Len(Reviews) : Reviews[j].id # result.review_id
    /\ saved = FALSE

\* C8: get_due_reviews read at time now lists exactly the persisted reviews
\* with next_review <= now, each once, and answers "no reviews due", not an
\* error, when there is none.
C8_ListDue ==
    [][GetDueReviews
       => LET dueAt == {i \in 1..Len(Reviews) :
                            fromisoformat(Reviews[i].next_review) <= now}
          IN  IF dueAt = {}
              THEN result'.kind = "no_reviews_due"
              ELSE /\ result'.kind = "due"
                   /\ result'.count = Cardinality(dueAt)
                   /\ Len(result'.entries) = Cardinality(dueAt)
                   /\ \E f \in [1..Len(result'.entries) -> dueAt] :
                         /\ \A k, m \in DOMAIN f : f[k] = f[m] => k = m
                         /\ \A k \in DOMAIN f :
                               /\ result'.entries[k].id = Reviews[f[k]].id
                               /\ result'.entries[k].topic
                                    = Reviews[f[k]].topic
                               /\ result'.entries[k].repetitions
                                    = Reviews[f[k]].repetitions]_vars

\* A listing of one review that is due exactly now, while the other review
\* of the store is not due yet.
C8_Witness ==
    /\ result.kind = "due"
    /\ result.count = 1
    /\ saved = FALSE
    /\ Len(Reviews) = 2
    /\ \E i, j \in 1..Len(Reviews) :
          /\ fromisoformat(Reviews[i].next_review) = now
          /\ fromisoformat(Reviews[j].next_review) > now
          /\ result.entries[1].id = Reviews[i].id

\* The value of initial_interval_days a schedule_review call works with.
GivenInterval(arg) == IF arg = Omitted THEN 1 * Day ELSE arg[1]

\* C9 as stated: every schedule_review call persists one new review with
\* repetitions = 0, ease_factor = 2.5, interval_days = initial_interval_days
\* (1 when omitted) and next_review = created_at + initial_interval_days; a
\* review scheduled with interval 1 at time t is not listed as due at t and
\* is listed at t + 1 day.
C9_AsStated ==
    [][\A topic \in Topics, note_path \in NotePaths,
         arg \in IntervalInputs, review_id \in IdPool :
          AnySchedule(topic, note_path, arg, review_id)
          => LET n == Len(Reviews)
                 new == Reviews'[n + 1]
                 t == fromisoformat(new.created_at)
             IN  /\ Len(Reviews') = n + 1
                 /\ SubSeq(Reviews', 1, n) = Reviews
                 /\ new.repetitions = 0
                 /\ new.ease_factor = 250
                 /\ new.interval_days = GivenInterval(arg)
                 /\ fromisoformat(new.next_review) = t + GivenInterval(arg)
                 /\ GivenInterval(arg) = 1 * Day
                      => /\ \A k \in 1..Len(DueReviews(Reviews', t)) :
                               DueReviews(Reviews', t)[k] # new
                         /\ \E k \in 1..Len(DueReviews(Reviews', t + Day)) :
                               DueReviews(Reviews', t + Day)[k] = new]_vars

\* C9 amended: every schedule_review call persists one new review with
\* repetitions = 0, ease_factor = 2.5, interval_days = initial_interval_days
\* (1 when omitted) and next_review = t + initial_interval_days, where t is
\* the clock reading taken for next_review; created_at is a later reading of
\* the clock, never earlier than t.  A review scheduled with interval 1 at
\* time t is not listed as due at t and is listed at t + 1 day.
C9_Schedule ==
    [][\A topic \in Topics, note_path \in NotePaths,
         arg \in IntervalInputs, review_id \in IdPool :
          AnySchedule(topic, note_path, arg, review_id)
          => LET n == Len(Reviews)
                 new == Reviews'[n + 1]
                 t == now
             IN  /\ Len(Reviews') = n + 1
                 /\ SubSeq(Reviews', 1, n) = Reviews
                 /\ new.repetitions = 0
                 /\ new.ease_factor = 250
                 /\ new.interval_days = GivenInterval(arg)
                 /\ fromisoformat(new.next_review) = t + GivenInterval(arg)
                 /\ fromisoformat(new.created_at) >= t
                 /\ fromisoformat(new.created_at) = now'
                 /\ GivenInterval(arg) = 1 * Day
                      => /\ \A k \in 1..Len(DueReviews(Reviews', t)) :
                               DueReviews(Reviews', t)[k] # new
                         /\ \E k \in 1..Len(DueReviews(Reviews', t + Day)) :
                               DueReviews(Reviews', t + Day)[k] = new]_vars

\* A second review has just been scheduled, and the clock moved between
\* the reading behind its next_review and the reading kept as created_at.
C9_Witness ==
    /\ result.kind = "scheduled"
    /\ Len(Reviews) = 2
    /\ Reviews[2].last_performance = Absent
    /\ fromisoformat(Reviews[2].created_at) + Reviews[2].interval_days
          > fromisoformat(Reviews[2].next_review)
    /\ fromisoformat(Reviews[2].created_at) = now

\* C10: a completion sets next_review to the time of the completion (the
\* clock reading it takes for next_review) plus the new interval_days, and
\* no other step changes the next_review or the interval_days of a
\* persisted review.
C10_NextReview ==
    [][\A i \in 1..Len(Reviews) :
          IF \E p \in Performances : Completes(i, p)
          THEN fromisoformat(Reviews'[i].next_review)
                  = now + Reviews'[i].interval_days
          ELSE /\ Reviews'[i].next_review = Reviews[i].next_review
               /\ Reviews'[i].interval_days = Reviews[i].interval_days]_vars

\* A completed review whose note was stamped a tick after the reading its
\* next_review was computed from, and whose interval changed with the
\* completion.
C10_Witness ==
    \E i \in 1..Len(Reviews) :
        /\ Reviews[i].last_performance = "strong"
        /\ Reviews[i].repetitions = 1
        /\ Len(Reviews[i].review_notes) = 1
        /\ fromisoformat(Reviews[i].review_notes[1].timestamp)
              > fromisoformat(Reviews[i].next_review)
                  - Reviews[i].interval_days
        /\ fromisoformat(Reviews[i].next_review)
              # fromisoformat(Reviews[i].created_at) + 2 * Day

\* C11: schedule_review called with an empty topic is rejected with a
\* validation error and persists no review.
C11_AsStated ==
    [][\A note_path \in NotePaths, arg \in WideIntervalInputs,
         review_id \in IdPool :
          ScheduleCall("", note_path, arg, review_id, MaxReviews, MaxJitter)
          => /\ result'.kind = "error"
             /\ reviews_file' = reviews_file]_vars

\* C12: in every reachable state every persisted review has
\* interval_days > 0, whatever initial_interval_days schedule_review was
\* given and whatever completions followed.
C12_AsStated ==
    \A i \in 1..Len(Reviews) : Reviews[i].interval_days > 0

\* C13: a complete_review call that ends in an error (unknown id, a missing
\* review_id or performance argument, a performance outside the four tiers
\* on an existing review) leaves the stored reviews as they were and writes
\* nothing.
C13_ErrorsPersistNothing ==
    [][/\ \A review_id \in IdPool \cup {UnknownId},
            performance \in Performances \cup {BadPerformance},
            notes \in NotesInputs :
             (/\ \/ \A j \in 1..Len(Reviews) : Reviews[j].id # review_id
                 \/ performance \notin Performances
              /\ AnyComplete(review_id, performance, notes))
             => /\ result'.kind \in {"not_found", "error"}
                /\ reviews_file' = reviews_file
                /\ saved' = FALSE
       /\ \A key \in {"review_id", "performance"} :
             CallToolMissing("complete_review", key)
             => /\ result'.kind = "error"
                /\ reviews_file' = reviews_file
                /\ saved' = FALSE]_vars

\* A performance outside the four tiers was refused on a review that had
\* been completed before; the review still shows the earlier completion.
C13_Witness ==
    /\ result.kind = "error"
    /\ result.key = BadPerformance
    /\ saved = FALSE
    /\ \E i \in 1..Len(Reviews) : Reviews[i].last_performance = "perfect"

\* C14: whenever the process dies during an operation, the save step
\* included, a later load still finds every review that was committed
\* before: the document is the complete one from before or after the
\* operation, never a partial or empty one.
C14_AsStated ==
    [][\A i \in 1..Len(Reviews) :
          /\ i <= Len(Reviews')
          /\ Reviews'[i].id = Reviews[i].id
          /\ Reviews'[i].created_at = Reviews[i].created_at]_vars

\* C15: within one server process no handler loads or saves between
\* another handler's load and its save: when a handler saves, no other
\* handler is in flight and the document it loaded is still the stored one,
\* so every review stored before the save is stored after it.
C15_RunsToCompletion ==
    [][\A t \in TaskIds :
          TaskFinish(t, TRUE)
          => /\ \A u \in TaskIds \ {t} : tasks[u].pc = "idle"
             /\ tasks[t].reviews = Reviews
             /\ \A i \in 1..Len(Reviews) :
                   /\ i <= Len(Reviews')
                   /\ Reviews'[i].id = Reviews[i].id
                   /\ Reviews'[i].repetitions >= Reviews[i].repetitions
                        \/ Reviews'[i].last_performance = "weak"]_vars

\* Both handlers of the process have scheduled a review and both reviews
\* are stored; one of them has been completed since.
C15_Witness ==
    /\ \A t \in TaskIds :
          tasks[t].pc = "idle" /\ tasks[t].reply.kind \in {"scheduled", "completed"}
    /\ \E t \in TaskIds : tasks[t].reply.kind = "scheduled"
    /\ Len(Reviews) = 2
    /\ Reviews[1].repetitions = 1

\* C16: between processes the last writer wins.  A save replaces the stored
\* document by the one the saving handler loaded, with that handler's own
\* change: what another process stored after that load is gone.
C16_LastWriterWins ==
    [][\A t \in TaskIds :
          (TaskFinish(t, FALSE) /\ saved')
          => LET mine == tasks[t].reviews
                 call == tasks[t].call
             IN  /\ Len(Reviews')
                      = Len(mine) + (IF call.op = "schedule_review"
                                     THEN 1 ELSE 0)
                 /\ \A i \in 1..Len(mine) :
                       \/ Reviews'[i] = mine[i]
                       \/ /\ call.op = "complete_review"
                          /\ mine[i].id = call.review_id
                          /\ Reviews'[i].last_performance
                                = call.performance]_vars

\* A lost update: both processes have scheduled a review and answered so,
\* and the stored document holds one review only.
C16_Witness ==
    /\ \A t \in TaskIds :
          tasks[t].pc = "idle" /\ tasks[t].reply.kind = "scheduled"
    /\ Len(Reviews) = 1

\* C17: the persisted reviews only grow.  Over every step of schedule_review,
\* get_due_reviews and complete_review, answered with success or with an
\* error, the stored list is as long as before or longer and every review
\* stored before is still stored, at its place and with its identity.
C17_OnlyGrows ==
    [][LET old == reviews_file.reviews
           new == reviews_file'.reviews
       IN  /\ Len(new) >= Len(old)
           /\ \A i \in 1..Len(old) :
                 /\ new[i].id = old[i].id
                 /\ new[i].topic = old[i].topic
                 /\ new[i].note_path = old[i].note_path
                 /\ new[i].created_at = old[i].created_at]_vars

\* Two reviews are stored, one of them completed, and the last call was a
\* complete_review answered with "Review not found".
C17_Witness ==
    /\ result.kind = "not_found"
    /\ Len(reviews_file.reviews) = 2
    /\ reviews_file.reviews[1].repetitions = 1
    /\ reviews_file.reviews[2].repetitions = 0

\* C18 as stated: in every reachable state the ids of the persisted reviews
\* are pairwise distinct, and the id of a review never changes once the
\* review is created.
C18_AsStated ==
    /\ [](\A i, j \in 1..Len(Reviews) :
             i # j => Reviews[i].id # Reviews[j].id)
    /\ [][\A i \in 1..Len(Reviews) :
             i <= Len(Reviews') => Reviews'[i].id = Reviews[i].id]_vars

\* C19: repetitions is a natural number in every state, and a completion
\* leaves it at 0 exactly when the performance is "weak"; a completion with
\* any other tier leaves it at the prior repetitions plus one.
C19_Repetitions ==
    [][/\ \A i \in 1..Len(Reviews') : Reviews'[i].repetitions \in Nat
       /\ \A i \in 1..Len(Reviews) : \A p \in Performances :
             Completes(i, p)
             => /\ Reviews'[i].repetitions = 0 <=> p = "weak"
                /\ p # "weak"
                     => Reviews'[i].repetitions
                          = Reviews[i].repetitions + 1]_vars

\* A review that was reset by a "weak" completion after two "moderate" ones
\* and has been completed with "moderate" once more.
C19_Witness ==
    /\ result.kind = "completed"
    /\ \E i \in 1..Len(Reviews) :
          /\ Reviews[i].last_performance = "moderate"
          /\ Reviews[i].repetitions = 1
          /\ Reviews[i].ease_factor = 208

\* C20: the review log is append-only.  Over every step the log a review
\* had before is a prefix of the log it has after: no entry is removed,
\* moved or rewritten.
C20_LogAppendOnly ==
    [][\A i \in 1..Len(Reviews) :
          /\ i <= Len(Reviews')
          /\ LET old == Reviews[i].review_notes
                 new == Reviews'[i].review_notes
             IN  /\ Len(old) <= Len(new)
                 /\ SubSeq(new, 1, Len(old)) = old]_vars

\* A log of two entries, a "weak" completion followed by a "strong" one at
\* a later time.
C20_Witness ==
    \E i \in 1..Len(Reviews) :
        LET log == Reviews[i].review_notes
        IN  /\ Len(log) = 2
            /\ log[1].performance = "weak"
            /\ log[2].performance = "strong"
            /\ fromisoformat(log[1].timestamp)
                  < fromisoformat(log[2].timestamp)

\* C21 as stated: a review has no terminal state.  In every reachable
\* state a complete_review call for a persisted review with any of the four
\* tiers is accepted and applies the update, whatever number of
\* completions came before.
C21_AsStated ==
    [][\A i \in 1..Len(Reviews) : \A p \in Performances :
          (FirstWithId(i, Reviews[i].id)
             /\ AnyComplete(Reviews[i].id, p, None))
          => /\ result'.kind = "completed"
             /\ Reviews'[i].last_performance = p]_vars

\* C22: get_due_reviews lists the due reviews in ascending order of
\* next_review: of any two listed reviews the one listed first is due at
\* the same time or earlier, and the listing has one entry for each due
\* review.
C22_Ascending ==
    [][(GetDueReviews /\ result'.kind = "due")
       => \E listed \in [1..result'.count -> 1..Len(Reviews)] :
             /\ \A k, l \in 1..result'.count : k # l => listed[k] # listed[l]
             /\ \A i \in 1..Len(Reviews) :
                   fromisoformat(Reviews[i].next_review) <= now
                   => \E k \in 1..result'.count : listed[k] = i
             /\ \A k \in 1..result'.count :
                   result'.entries[k] = DueEntry(Reviews[listed[k]], now)
             /\ \A k, l \in 1..result'.count :
                   k < l => fromisoformat(Reviews[listed[k]].next_review)
                              <= fromisoformat(Reviews[listed[l]].next_review)
      ]_vars

\* Two reviews are due, the second of the store half a day before the
\* first, and the listing names the second one first.
C22_Witness ==
    /\ result.kind = "due"
    /\ result.count = 2
    /\ Len(Reviews) = 2
    /\ Reviews[1].id # Reviews[2].id
    /\ fromisoformat(Reviews[2].next_review)
          < fromisoformat(Reviews[1].next_review)
    /\ Len(Reviews[2].next_review) = 2
    /\ result.entries[1].id = Reviews[2].id
    /\ result.entries[2].id = Reviews[1].id

\* The stored challenges and the recorded progress entries.
Challenges == load_json_data(challenges_file)

Entries == load_json_data(progress_file)

\* C23: get_due_reviews is read-only.  A call leaves reviews.json as it is,
\* a missing file missing, and leaves challenges.json and progress.json as
\* they are.
C23_ReadOnly ==
    [][GetDueReviews
       => /\ reviews_file' = reviews_file
          /\ challenges_file' = challenges_file
          /\ progress_file' = progress_file]_vars

\* A due listing has been answered while a review, a challenge and a
\* progress entry are stored.
C23_Witness ==
    /\ result.kind = "due"
    /\ saved = FALSE
    /\ Len(Reviews) = 1
    /\ Len(Challenges) >= 1
    /\ Len(Entries) >= 1

RECURSIVE LinkedMinutes(_, _)
\* The sum of duration_minutes over the entries linked to challenge_id.
LinkedMinutes(entries, challenge_id) ==
    IF Len(entries) = 0 THEN 0
    ELSE (IF entries[1].challenge_id = <<challenge_id>>
          THEN entries[1].duration_minutes ELSE 0)
         + LinkedMinutes(Tail(entries), challenge_id)

\* C24 as stated: after any sequence of create_challenge and
\* record_progress calls the time_spent_minutes of every challenge is the
\* sum of duration_minutes over the progress entries that carry its id, 0
\* for a challenge no entry is linked to.
C24_AsStated ==
    \A k \in 1..Len(Challenges) :
        Challenges[k].time_spent_minutes
          = LinkedMinutes(Entries, Challenges[k].id)

\* C25 as stated: suggest_next_topic called with an area lists only topics
\* that contain the area, among the topics needing review and among the
\* pending challenges.
C25_AsStated ==
    [][\A area \in AreaInputs \ {Omitted} :
          SuggestNextTopicCall(area)
          => /\ \A k \in 1..Len(result'.weak_topics) :
                   area[1] \in TopicWords[result'.weak_topics[k].topic]
             /\ \A k \in 1..Len(result'.pending) :
                   area[1] \in TopicWords[result'.pending[k].topic]]_vars

\* A step that completes the review at position i with this performance
\* and these notes.
CompletesWith(i, performance, notes) ==
    /\ Completes(i, performance)
    /\ AnyComplete(Reviews[i].id, performance, notes)

\* The log new is the log old with one more entry at its end, which
\* carries this performance and these notes.
OneMoreEntry(old, new, performance, notes) ==
    /\ Len(new) = Len(old) + 1
    /\ SubSeq(new, 1, Len(old)) = old
    /\ new[Len(new)].performance = performance
    /\ new[Len(new)].notes = notes

\* C26 as stated: a completion of an existing review that is given notes
\* appends exactly one entry with the call's performance and notes to the
\* end of the review's log; a completion given no notes leaves the log
\* unchanged.
C26_AsStated ==
    [][\A i \in 1..Len(Reviews) : \A p \in Performances :
          /\ \A notes \in NotesInputs \ {None} :
                CompletesWith(i, p, notes)
                => OneMoreEntry(Reviews[i].review_notes,
                                Reviews'[i].review_notes, p, notes)
          /\ CompletesWith(i, p, None)
                => Reviews'[i].review_notes = Reviews[i].review_notes]_vars

\* C26: a completion of an existing review that is given notes other than
\* the empty string appends exactly one entry with the call's performance
\* and notes, stamped with a clock reading of the call, to the end of the
\* review's log; a completion given no notes or the empty string leaves the
\* log unchanged.
C26_NotesAppend ==
    [][\A i \in 1..Len(Reviews) : \A p \in Performances :
          /\ \A notes \in NotesInputs \ {None, ""} :
                CompletesWith(i, p, notes)
                => LET new == Reviews'[i].review_notes
                   IN  /\ OneMoreEntry(Reviews[i].review_notes, new, p, notes)
                       /\ fromisoformat(new[Len(new)].timestamp) >= now
                       /\ fromisoformat(new[Len(new)].timestamp) <= now'
          /\ \A notes \in {None, ""} :
                CompletesWith(i, p, notes)
                => Reviews'[i].review_notes = Reviews[i].review_notes]_vars

\* A review completed with notes and "weak", then completed again with
\* "strong" and without notes: the log holds the one entry of the first
\* completion.
C26_Witness ==
    /\ result.kind = "completed"
    /\ \E i \in 1..Len(Reviews) :
          /\ Reviews[i].last_performance = "strong"
          /\ Len(Reviews[i].review_notes) = 1
          /\ Reviews[i].review_notes[1].performance = "weak"
          /\ Reviews[i].review_notes[1].notes = "Good recall"

\* C27: a completion of an existing review changes nothing but the
\* next_review, interval_days, repetitions, ease_factor, last_performance
\* and note log of that review.  Its id, topic, note_path and created_at,
\* every other stored review and the order of the store are as before; of
\* several reviews with the id of the call only the first in store order
\* changes.
C27_Frame ==
    [][\A i \in 1..Len(Reviews) : \A p \in Performances :
          Completes(i, p)
          => /\ Len(Reviews') = Len(Reviews)
             /\ \A j \in 1..Len(Reviews) : j # i => Reviews'[j] = Reviews[j]
             /\ DOMAIN Reviews'[i] = DOMAIN Reviews[i]
             /\ Reviews'[i].id = Reviews[i].id
             /\ Reviews'[i].topic = Reviews[i].topic
             /\ Reviews'[i].note_path = Reviews[i].note_path
             /\ Reviews'[i].created_at = Reviews[i].created_at]_vars

\* Two stored reviews carry the same id; a completion with notes has
\* changed the first and left the second as it was scheduled.
C27_Witness ==
    /\ result.kind = "completed"
    /\ Len(Reviews) = 2
    /\ Reviews[1].id = Reviews[2].id
    /\ Reviews[1].last_performance = "strong"
    /\ Len(Reviews[1].review_notes) = 1
    /\ Reviews[2].last_performance = Absent
    /\ Reviews[2].repetitions = 0

\* C28: after an accepted completion, of any tier and from any state
\* reachable after a schedule_review with a positive interval, interval_days
\* is at least one day; next_review lies a day or more after the start of
\* the call, so the review is not due when the call ends and a due listing
\* at that time does not hold it.
C28_NotDueForADay ==
    [][\A i \in 1..Len(Reviews) : \A p \in Performances :
          Completes(i, p)
          => /\ Reviews'[i].interval_days >= 1 * Day
             /\ fromisoformat(Reviews'[i].next_review) >= now + 1 * Day
             /\ fromisoformat(Reviews'[i].next_review) > now'
             /\ LET due == DueReviews(Reviews', now')
                IN  \A k \in 1..Len(due) : due[k] # Reviews'[i]]_vars

\* A review has been completed with "moderate" and the due listing asked
\* for after that has answered that nothing is due.
C28_Witness ==
    /\ result.kind = "no_reviews_due"
    /\ \E i \in 1..Len(Reviews) :
          /\ Reviews[i].last_performance = "moderate"
          /\ Reviews[i].repetitions = 1
          /\ Reviews[i].interval_days = 1 * Day
          /\ fromisoformat(Reviews[i].next_review) > now

\* C29: in every state a review with repetitions = 1 has interval_days = 1
\* and a review with repetitions = 2 has interval_days = 6; the interval a
\* review was scheduled with is gone after its first completion, which
\* leaves 1 whatever interval was given.
C29_BootstrapIntervals ==
    \A i \in 1..Len(Reviews) :
        /\ Reviews[i].repetitions = 1
             => Reviews[i].interval_days = 1 * Day
        /\ Reviews[i].repetitions = 2
             => Reviews[i].interval_days = 6 * Day
        /\ (Reviews[i].last_performance # Absent
               /\ Reviews[i].repetitions = 0)
             => Reviews[i].interval_days = 1 * Day

\* A review scheduled on day 0 and completed twice with success on that
\* day, "perfect" and then "strong": repetitions 2, due six days later.
C29_Witness ==
    \E i \in 1..Len(Reviews) :
        /\ Reviews[i].repetitions = 2
        /\ Reviews[i].interval_days = 6 * Day
        /\ Reviews[i].ease_factor = 260
        /\ Reviews[i].last_performance = "strong"
        /\ Reviews[i].next_review = <<6>>

====
